---- MODULE Spec2Model ----
(***************************************************************************)
(* QuerySubscription (src/react/cache/QuerySubscription.ts): the          *)
(* coordinator between one ObservableQuery and the listeners of its       *)
(* result.  The state is the object's fields (result, promise, listeners, *)
(* subscription), the unregister closures handed out by listen, the       *)
(* delivery stream (concast) the constructor subscribed to, and a record  *)
(* of what the last operation did (the handler that ran, the object it    *)
(* was given, the listener invocations it made).                          *)
(***************************************************************************)
EXTENDS Integers, Sequences, FiniteSets, TLC

VARIABLES
    result,         \* this.result
    listeners,      \* this.listeners, a Set in insertion order
    tokens,         \* the closures returned by listen: <<[listener, called]>>
    promise,        \* this.promise: the identity of the promise it refers to
    fetches,        \* promises the engine has returned from refetch/fetchMore
    subscribed,     \* this.subscription is still registered with the engine
    hookCalls,      \* times this.onDispose() has run
    lastOp,         \* the operation of the last step
    calls,          \* listener invocations of the last step, in order
    deferred,       \* hasDirectives(['defer'], observable.query)
    concast,        \* the delivery stream: [status, emitted]
    initialPromise, \* settlement of the promise assigned at construction
    auxSubscribed,  \* the observer of wrapWithCustomPromise is subscribed
    inflight        \* the stream event being dispatched: [kind, arg, todo]

coordinator == <<result, listeners, tokens, promise, fetches, subscribed,
                 hookCalls>>
stream == <<deferred, concast, initialPromise, auxSubscribed, inflight>>
vars == <<coordinator, stream, lastOp, calls>>

----------------------------------------------------------------------------
(* Bounds of the model *)

MaxTokens == 2
MaxFetches == 2
MaxDisposals == 2
MaxChunks == 2

----------------------------------------------------------------------------
(* Values *)

Undef == "undefined"
Null == "null"
Data == {Undef, Null, "D1", "D2"}
Errors == {"E1", "E2"}
Callbacks == {"L1", "L2"}

NetworkStatus == [loading |-> 1, ready |-> 7, error |-> 8]

isNetworkRequestSettled(networkStatus) ==
    networkStatus = NetworkStatus.ready \/ networkStatus = NetworkStatus.error

\* JavaScript truthiness of a data value: `this.result.data &&`
Truthy(v) == v \notin {Undef, Null}

\* ApolloQueryResult as the engine produces it
ApolloQueryResult(d, e, s) ==
    [data |-> d, error |-> e, loading |-> (s = NetworkStatus.loading),
     networkStatus |-> s]

Snapshots ==
    { ApolloQueryResult(d, es[1], es[2]) :
        d \in Data,
        es \in { <<Undef, NetworkStatus.loading>>,
                 <<Undef, NetworkStatus.ready>>,
                 <<"E1", NetworkStatus.error>> } }

\* deep structural equality of two results
equal(a, b) ==
    /\ a.data = b.data
    /\ a.error = b.error
    /\ a.loading = b.loading
    /\ a.networkStatus = b.networkStatus

----------------------------------------------------------------------------
(* The listener Set *)

Contains(seq, x) == \E i \in 1..Len(seq) : seq[i] = x

\* an array push in the place of Set.add
SetAddAlways(seq, x) == Append(seq, x)

SetAdd(seq, x) == IF Contains(seq, x) THEN seq ELSE Append(seq, x)

SetDelete(seq, x) == SelectSeq(seq, LAMBDA y : y # x)

Count(cb) == Cardinality({ i \in 1..Len(calls) : calls[i].listener = cb })

----------------------------------------------------------------------------
(* Handlers *)

\* the record of an operation: its name and argument, what it found (prev),
\* the object it produced (out), whether it repeats the call before it, and
\* whether it assigned this.result
Op(name, arg) ==
    [op |-> name, arg |-> arg, prev |-> Undef, out |-> Undef, again |-> "none",
     wrote |-> FALSE]

\* the backfill without the test of the network status
BackfillUnsettled(cur, incoming) ==
    IF Truthy(cur.data) /\ incoming.data = Undef
    THEN [incoming EXCEPT !.data = cur.data]
    ELSE incoming

\* the backfill for the error status alone
BackfillOnError(cur, incoming) ==
    IF /\ incoming.networkStatus = NetworkStatus.error
       /\ Truthy(cur.data)
       /\ incoming.data = Undef
    THEN [incoming EXCEPT !.data = cur.data]
    ELSE incoming

\* lines 122-128: the incoming object after the conditional backfill
Backfill(cur, incoming) ==
    IF /\ isNetworkRequestSettled(incoming.networkStatus)
       /\ Truthy(cur.data)
       /\ incoming.data = Undef
    THEN [incoming EXCEPT !.data = cur.data]
    ELSE incoming

\* the error snapshot built without the spread of this.result
ErrorResultFresh(cur, error) ==
    [data |-> Undef, error |-> error, loading |-> FALSE,
     networkStatus |-> NetworkStatus.error]

\* lines 137-141: { ...this.result, error, networkStatus: NetworkStatus.error }
ErrorResult(cur, error) ==
    [data |-> cur.data, error |-> error, loading |-> cur.loading,
     networkStatus |-> NetworkStatus.error]

\* lines 147-149: one invocation per member of the Set, in insertion order
deliver(res) ==
    [i \in 1..Len(listeners) |-> [listener |-> listeners[i], result |-> res]]

\* handleNext without the equality test of line 130
handleNextAlways(incoming) ==
    LET out == Backfill(result, incoming)
    IN  /\ result' = out
        /\ calls' = deliver(out)
        /\ lastOp' = [op |-> "handleNext", arg |-> incoming, prev |-> result,
                      out |-> out,
                      again |-> IF lastOp.op = "handleNext" /\ lastOp.arg = incoming
                                THEN IF lastOp.prev = lastOp.out
                                     THEN "discarded" ELSE "delivered"
                                ELSE "none",
                      wrote |-> TRUE]

\* lines 118-134
handleNext(incoming) ==
    LET out == Backfill(result, incoming)
    IN  /\ IF ~equal(result, out)
           THEN /\ result' = out
                /\ calls' = deliver(out)
           ELSE /\ result' = result
                /\ calls' = <<>>
        /\ lastOp' = [op |-> "handleNext", arg |-> incoming, prev |-> result,
                      out |-> out,
                      again |-> IF lastOp.op = "handleNext" /\ lastOp.arg = incoming
                                THEN IF lastOp.prev = lastOp.out
                                     THEN "discarded" ELSE "delivered"
                                ELSE "none",
                      wrote |-> ~equal(result, out)]

\* handleError with the equality test of handleNext
handleErrorDeduped(error) ==
    LET res == ErrorResult(result, error)
    IN  /\ IF ~equal(result, res)
           THEN /\ result' = res
                /\ calls' = deliver(res)
           ELSE /\ result' = result
                /\ calls' = <<>>
        /\ lastOp' = [op |-> "handleError", arg |-> error, prev |-> result,
                      out |-> res, again |-> "none",
                      wrote |-> ~equal(result, res)]

\* handleError fanning out the error snapshot without storing it
handleErrorNoStore(error) ==
    LET res == ErrorResult(result, error)
    IN  /\ result' = result
        /\ calls' = deliver(res)
        /\ lastOp' = [op |-> "handleError", arg |-> error, prev |-> result,
                      out |-> res, again |-> "none", wrote |-> TRUE]

\* lines 136-145
handleError(error) ==
    LET res == ErrorResult(result, error)
    IN  /\ result' = res
        /\ calls' = deliver(res)
        /\ lastOp' = [op |-> "handleError", arg |-> error, prev |-> result,
                      out |-> res, again |-> "none", wrote |-> TRUE]

----------------------------------------------------------------------------
(* The delivery stream (Concast) and the promise built on it *)

Pending == [state |-> "pending", value |-> Undef]

\* resolve / reject of a Promise: the first settlement wins
Settle(p, state, value) ==
    IF p.state = "pending" THEN [state |-> state, value |-> value] ELSE p

NoEvent == [kind |-> "none", arg |-> Undef, todo |-> {}]

\* no stream event is being dispatched
Idle == inflight.todo = {}

\* the observers an event of the stream is dispatched to
Observers ==
    (IF subscribed THEN {"main"} ELSE {}) \cup
    (IF auxSubscribed THEN {"aux"} ELSE {})

\* the last chunk the stream emitted
Latest ==
    IF concast.emitted = <<>> THEN Undef
    ELSE concast.emitted[Len(concast.emitted)]

\* the chunks of a streamed response: partial data first, then the rest
Chunks ==
    { ApolloQueryResult("D1", Undef, NetworkStatus.loading),
      ApolloQueryResult("D2", Undef, NetworkStatus.ready) }

----------------------------------------------------------------------------
(* Operations *)

\* a constructor wrapping the concast whatever the query
InitAlwaysWrapped ==
    /\ result \in Snapshots
    /\ listeners = <<>>
    /\ tokens = <<>>
    /\ promise = 0
    /\ fetches = 0
    /\ subscribed = TRUE
    /\ hookCalls = 0
    /\ lastOp = Op("construct", Undef)
    /\ calls = <<>>
    /\ deferred \in BOOLEAN
    /\ concast = [status |-> "open", emitted |-> <<>>]
    /\ initialPromise = Pending
    /\ auxSubscribed = TRUE
    /\ inflight = NoEvent

Init ==
    /\ result \in Snapshots
    /\ listeners = <<>>
    /\ tokens = <<>>
    /\ promise = 0
    /\ fetches = 0
    /\ subscribed = TRUE
    /\ hookCalls = 0
    /\ lastOp = Op("construct", Undef)
    /\ calls = <<>>
    /\ deferred \in BOOLEAN
    /\ concast = [status |-> "open", emitted |-> <<>>]
    /\ initialPromise = Pending
    /\ auxSubscribed = deferred
    /\ inflight = NoEvent

\* a constructor testing for the concast before it subscribes
ConstructChecksFirst(current, hasConcast) ==
    IF hasConcast
    THEN Init /\ result = current
    ELSE /\ result = current
         /\ listeners = <<>>
         /\ tokens = <<>>
         /\ promise = Undef
         /\ fetches = 0
         /\ subscribed = FALSE
         /\ hookCalls = 0
         /\ lastOp = Op("threw", Undef)
         /\ calls = <<>>
         /\ deferred \in BOOLEAN
         /\ concast = [status |-> "missing", emitted |-> <<>>]
         /\ initialPromise = Pending
         /\ auxSubscribed = FALSE
         /\ inflight = NoEvent

\* lines 53-87, the constructor on an engine whose getCurrentResult() returns
\* current and which exposes a concast after subscribe, or none.  Without
\* one the invariant of lines 77-80 throws: line 61 has assigned result, line
\* 67 has subscribed, lines 82-86 never run and `promise` stays unassigned.
Construct(current, hasConcast) ==
    IF hasConcast
    THEN Init /\ result = current
    ELSE /\ result = current
         /\ listeners = <<>>
         /\ tokens = <<>>
         /\ promise = Undef
         /\ fetches = 0
         /\ subscribed = TRUE
         /\ hookCalls = 0
         /\ lastOp = Op("threw", Undef)
         /\ calls = <<>>
         /\ deferred \in BOOLEAN
         /\ concast = [status |-> "missing", emitted |-> <<>>]
         /\ initialPromise = Pending
         /\ auxSubscribed = FALSE
         /\ inflight = NoEvent

Listen(cb) ==
    /\ Idle
    /\ Len(tokens) < MaxTokens
    /\ listeners' = SetAdd(listeners, cb)
    /\ tokens' = Append(tokens, [listener |-> cb, called |-> FALSE])
    /\ lastOp' = Op("listen", cb)
    /\ calls' = <<>>
    /\ UNCHANGED <<result, promise, fetches, subscribed, hookCalls, stream>>

Unregister(t) ==
    /\ Idle
    /\ t \in 1..Len(tokens)
    /\ listeners' = SetDelete(listeners, tokens[t].listener)
    /\ tokens' = [tokens EXCEPT ![t].called = TRUE]
    /\ lastOp' = [Op("unregister", t) EXCEPT
                      !.prev = listeners,
                      !.again = IF tokens[t].called THEN "called" ELSE "none"]
    /\ calls' = <<>>
    /\ UNCHANGED <<result, promise, fetches, subscribed, hookCalls, stream>>

HandleNext(incoming) ==
    /\ Idle
    /\ handleNext(incoming)
    /\ UNCHANGED <<listeners, tokens, promise, fetches, subscribed, hookCalls,
                   stream>>

HandleError(error) ==
    /\ Idle
    /\ handleError(error)
    /\ UNCHANGED <<listeners, tokens, promise, fetches, subscribed, hookCalls,
                   stream>>

\* refetch returning the promise of the engine without storing it
RefetchNoStore ==
    /\ Idle
    /\ fetches < MaxFetches
    /\ fetches' = fetches + 1
    /\ promise' = promise
    /\ lastOp' = [Op("refetch", fetches) EXCEPT !.prev = promise,
                                                !.out = fetches + 1]
    /\ calls' = <<>>
    /\ UNCHANGED <<result, listeners, tokens, subscribed, hookCalls, stream>>

\* lines 97-101; arg: the calls the engine had received, prev: the promise
\* held before, out: the promise returned
Refetch ==
    /\ Idle
    /\ fetches < MaxFetches
    /\ fetches' = fetches + 1
    /\ promise' = fetches + 1
    /\ lastOp' = [Op("refetch", fetches) EXCEPT !.prev = promise,
                                                !.out = promise']
    /\ calls' = <<>>
    /\ UNCHANGED <<result, listeners, tokens, subscribed, hookCalls, stream>>

\* fetchMore delivering the result held to the listeners by itself
FetchMoreDelivers ==
    /\ Idle
    /\ fetches < MaxFetches
    /\ fetches' = fetches + 1
    /\ promise' = fetches + 1
    /\ lastOp' = [Op("fetchMore", fetches) EXCEPT !.prev = promise,
                                                  !.out = promise']
    /\ calls' = deliver(result)
    /\ UNCHANGED <<result, listeners, tokens, subscribed, hookCalls, stream>>

\* lines 103-107
FetchMore ==
    /\ Idle
    /\ fetches < MaxFetches
    /\ fetches' = fetches + 1
    /\ promise' = fetches + 1
    /\ lastOp' = [Op("fetchMore", fetches) EXCEPT !.prev = promise,
                                                  !.out = promise']
    /\ calls' = <<>>
    /\ UNCHANGED <<result, listeners, tokens, subscribed, hookCalls, stream>>

\* dispose emptying the listener set
DisposeClears ==
    /\ Idle
    /\ hookCalls < MaxDisposals
    /\ subscribed' = FALSE
    /\ hookCalls' = hookCalls + 1
    /\ listeners' = <<>>
    /\ lastOp' = Op("dispose", Undef)
    /\ calls' = <<>>
    /\ UNCHANGED <<result, tokens, promise, fetches, stream>>

\* lines 109-112
Dispose ==
    /\ Idle
    /\ hookCalls < MaxDisposals
    /\ subscribed' = FALSE
    /\ hookCalls' = hookCalls + 1
    /\ lastOp' = Op("dispose", Undef)
    /\ calls' = <<>>
    /\ UNCHANGED <<result, listeners, tokens, promise, fetches, stream>>

\* the stream emits a chunk
StreamNext(chunk) ==
    /\ Idle
    /\ concast.status = "open"
    /\ Len(concast.emitted) < MaxChunks
    /\ concast' = [concast EXCEPT !.emitted = Append(@, chunk)]
    /\ inflight' = [kind |-> "next", arg |-> chunk, todo |-> Observers]
    /\ lastOp' = Op("streamNext", chunk)
    /\ calls' = <<>>
    /\ UNCHANGED <<coordinator, deferred, initialPromise, auxSubscribed>>

\* the stream fails: concast.promise rejects
StreamError(error) ==
    /\ Idle
    /\ concast.status = "open"
    /\ concast' = [concast EXCEPT !.status = "errored"]
    /\ inflight' = [kind |-> "error", arg |-> error, todo |-> Observers]
    /\ initialPromise' =
          IF deferred THEN initialPromise
          ELSE Settle(initialPromise, "rejected", error)
    /\ lastOp' = Op("streamError", error)
    /\ calls' = <<>>
    /\ UNCHANGED <<coordinator, deferred, auxSubscribed>>

\* an observer resolving with the last chunk when the stream completes
AuxCompleteResolves(p) == Settle(p, "resolved", Latest)

\* lines 31-37: the observer of wrapWithCustomPromise has next and error and
\* no complete, so the completion of the stream leaves its promise p as it is
AuxComplete(p) == p

\* the stream completes: concast.promise resolves with the last chunk
StreamComplete ==
    /\ Idle
    /\ concast.status = "open"
    /\ concast' = [concast EXCEPT !.status = "completed"]
    /\ initialPromise' =
          IF deferred THEN AuxComplete(initialPromise)
          ELSE Settle(initialPromise, "resolved", Latest)
    /\ lastOp' = Op("streamComplete", Undef)
    /\ calls' = <<>>
    /\ UNCHANGED <<coordinator, deferred, auxSubscribed, inflight>>

\* the event reaches the subscription of lines 67-70
NotifyMain ==
    /\ "main" \in inflight.todo
    /\ inflight' = [inflight EXCEPT !.todo = @ \ {"main"}]
    /\ IF ~subscribed
       THEN /\ lastOp' = Op("dropped", inflight.arg)
            /\ calls' = <<>>
            /\ UNCHANGED result
       ELSE IF inflight.kind = "next"
            THEN handleNext(inflight.arg)
            ELSE handleError(inflight.arg)
    /\ UNCHANGED <<listeners, tokens, promise, fetches, subscribed, hookCalls,
                   deferred, concast, initialPromise, auxSubscribed>>

\* next without subscription.unsubscribe()
AuxNextStaysSubscribed(value) ==
    /\ initialPromise' = Settle(initialPromise, "resolved", value)
    /\ auxSubscribed' = auxSubscribed
    /\ lastOp' = Op("auxNext", value)
    /\ UNCHANGED <<coordinator>>

\* next releasing the subscription of the coordinator with its own
AuxNextUnsubscribesAll(value) ==
    /\ initialPromise' = Settle(initialPromise, "resolved", value)
    /\ auxSubscribed' = FALSE
    /\ subscribed' = FALSE
    /\ lastOp' = Op("auxNext", value)
    /\ UNCHANGED <<result, listeners, tokens, promise, fetches, hookCalls>>

\* lines 32-35: next of the observer of wrapWithCustomPromise
AuxNext(value) ==
    /\ initialPromise' = Settle(initialPromise, "resolved", value)
    /\ auxSubscribed' = FALSE
    /\ lastOp' = Op("auxNext", value)
    /\ UNCHANGED <<coordinator>>

\* an observer without `error: reject`
AuxErrorIgnored(error) ==
    /\ initialPromise' = initialPromise
    /\ lastOp' = Op("auxError", error)
    /\ UNCHANGED <<coordinator, auxSubscribed>>

\* line 36: error of the observer of wrapWithCustomPromise
AuxError(error) ==
    /\ initialPromise' = Settle(initialPromise, "rejected", error)
    /\ lastOp' = Op("auxError", error)
    /\ UNCHANGED <<coordinator, auxSubscribed>>

\* the event reaches the observer of lines 31-37
NotifyAux ==
    /\ "aux" \in inflight.todo
    /\ inflight' = [inflight EXCEPT !.todo = @ \ {"aux"}]
    /\ IF ~auxSubscribed
       THEN /\ lastOp' = Op("dropped", inflight.arg)
            /\ UNCHANGED <<coordinator, initialPromise, auxSubscribed>>
       ELSE IF inflight.kind = "next"
            THEN AuxNext(inflight.arg)
            ELSE AuxError(inflight.arg)
    /\ calls' = <<>>
    /\ UNCHANGED <<deferred, concast>>

\* the methods and handlers of the coordinator, the stream staying silent
Next ==
    \/ \E cb \in Callbacks : Listen(cb)
    \/ \E t \in 1..MaxTokens : Unregister(t)
    \/ \E r \in Snapshots : HandleNext(r)
    \/ \E e \in Errors : HandleError(e)
    \/ Refetch
    \/ FetchMore
    \/ Dispose

\* Next reads and writes no variable of the stream, so the coordinator of a
\* query without @defer stands for both kinds of query here
InitPlain == Init /\ ~deferred

Spec == InitPlain /\ [][Next]_vars

\* the coordinator on a live delivery stream
NextStream ==
    \/ \E cb \in Callbacks : Listen(cb)
    \/ \E r \in Chunks : HandleNext(r)
    \/ Refetch
    \/ Dispose
    \/ \E c \in Chunks : StreamNext(c)
    \/ \E e \in Errors : StreamError(e)
    \/ StreamComplete
    \/ NotifyMain
    \/ NotifyAux

SpecStream == Init /\ [][NextStream]_vars

\* the constructor returned a coordinator
Produced == concast.status # "missing"

InitConstruct ==
    /\ \E current \in Snapshots, hasConcast \in BOOLEAN :
          Construct(current, hasConcast)
    /\ ~deferred

\* the methods need the coordinator the constructor returns; the handlers
\* were handed to the engine at line 67 and stay callable without one
NextConstruct ==
    \/ Produced /\ \E cb \in Callbacks : Listen(cb)
    \/ Produced /\ \E t \in 1..MaxTokens : Unregister(t)
    \/ \E r \in Snapshots : HandleNext(r)
    \/ \E e \in Errors : HandleError(e)
    \/ Produced /\ Refetch
    \/ Produced /\ FetchMore
    \/ Produced /\ Dispose

SpecConstruct == InitConstruct /\ [][NextConstruct]_vars

----------------------------------------------------------------------------
(* Shorthands of the properties *)

Registered == { listeners[i] : i \in 1..Len(listeners) }

WasRegistered == { lastOp.prev[i] : i \in 1..Len(lastOp.prev) }

\* every registered callback was invoked exactly once, with res, and nobody else
FannedOut(res) ==
    /\ Len(calls) = Len(listeners)
    /\ \A cb \in Callbacks : Count(cb) = IF cb \in Registered THEN 1 ELSE 0
    /\ \A i \in 1..Len(calls) : calls[i].result = res

\* the condition of the backfill, on the call of the last step
Masked ==
    /\ lastOp.arg.networkStatus \in {NetworkStatus.ready, NetworkStatus.error}
    /\ lastOp.prev.data \notin {Undef, Null}
    /\ lastOp.arg.data = Undef

----------------------------------------------------------------------------
(* C1: a handleNext whose result, after the backfill, is structurally equal
   to the result held leaves `result` as it was and invokes no listener; the
   second of two equal snapshots delivered in a row invokes no listener, and
   the first invokes each registered listener once if it differs from the
   result held and not at all if it equals it: at most one fan-out for the
   two. *)
C1_Dedup ==
    lastOp.op = "handleNext" =>
        /\ lastOp.out = lastOp.prev => (calls = <<>> /\ result = lastOp.prev)
        /\ lastOp.out # lastOp.prev => (FannedOut(lastOp.out) /\ result = lastOp.out)
        /\ lastOp.again # "none" => calls = <<>>

\* a snapshot was delivered to two listeners and then discarded when it came again
C1_Witness ==
    /\ lastOp.op = "handleNext"
    /\ lastOp.again = "delivered"
    /\ Len(listeners) = 2
    /\ lastOp.arg.data = Undef
    /\ result.data = "D1"

(* C1 as stated: two structurally equal snapshots delivered in a row through
   handleNext cause exactly one fan-out to each registered listener, counted
   over the two calls. *)
C1_ExactlyOneFanOut ==
    (lastOp.op = "handleNext" /\ lastOp.again # "none") =>
        \A cb \in Registered :
            Count(cb) + (IF lastOp.again = "delivered" THEN 1 ELSE 0) = 1

----------------------------------------------------------------------------
(* C2: handleNext replaces the incoming data by the data of the result held
   if and only if the incoming status is settled, the result held has
   non-empty data and the incoming data is undefined; otherwise, and in every
   other field, the incoming object is passed through, and it is what the
   listeners are given. *)
C2_StaleErrorMasking ==
    lastOp.op = "handleNext" =>
        /\ Masked => lastOp.out.data = lastOp.prev.data
        /\ ~Masked => lastOp.out.data = lastOp.arg.data
        /\ lastOp.out.error = lastOp.arg.error
        /\ lastOp.out.loading = lastOp.arg.loading
        /\ lastOp.out.networkStatus = lastOp.arg.networkStatus
        /\ \A i \in 1..Len(calls) : calls[i].result = lastOp.out

\* {data: D1, loading} is held, {data: undefined, error} arrives, and the
\* listener is given {data: D1, error}
C2_Witness ==
    /\ lastOp.op = "handleNext"
    /\ lastOp.prev = ApolloQueryResult("D1", Undef, NetworkStatus.loading)
    /\ lastOp.arg = ApolloQueryResult(Undef, "E1", NetworkStatus.error)
    /\ Len(calls) = 1
    /\ calls[1].result = ApolloQueryResult("D1", "E1", NetworkStatus.error)

----------------------------------------------------------------------------
(* C3 as stated: once `result` holds non-empty data, no delivery (handleNext
   with any network status, handleError) stores in `result`, or passes to a
   listener, a snapshot whose data is absent.  Stated for the delivery that
   follows a result with non-empty data. *)
C3_NeverBlanked ==
    (lastOp.op \in {"handleNext", "handleError"} /\ Truthy(lastOp.prev.data)) =>
        /\ result.data # Undef
        /\ \A i \in 1..Len(calls) : calls[i].result.data # Undef

(* C3, amended: while `result` holds non-empty data, a handleError, or a
   handleNext whose incoming network status is settled, stores in `result`
   and passes to the listeners only snapshots whose data is present. *)
C3_NotBlankedWhenSettled ==
    (/\ lastOp.op \in {"handleNext", "handleError"}
     /\ Truthy(lastOp.prev.data)
     /\ lastOp.op = "handleNext" =>
            lastOp.arg.networkStatus \in {NetworkStatus.ready, NetworkStatus.error}) =>
        /\ result.data # Undef
        /\ \A i \in 1..Len(calls) : calls[i].result.data # Undef

\* a settled snapshot without data arrived over good data and was delivered
C3_Witness ==
    /\ lastOp.op = "handleNext"
    /\ Truthy(lastOp.prev.data)
    /\ lastOp.arg.data = Undef
    /\ lastOp.arg.networkStatus = NetworkStatus.ready
    /\ calls # <<>>
    /\ result.data = lastOp.prev.data

----------------------------------------------------------------------------
(* C4: every handleError replaces `result` by the error snapshot and invokes
   every registered listener exactly once with it, also when that snapshot
   is structurally equal to the result held. *)
C4_ErrorAlwaysDelivered ==
    lastOp.op = "handleError" =>
        /\ result = lastOp.out
        /\ result.error = lastOp.arg
        /\ result.networkStatus = NetworkStatus.error
        /\ FannedOut(result)

\* the result held already carried E1 with the error status, and E1 came again
C4_Witness ==
    /\ lastOp.op = "handleError"
    /\ lastOp.arg = "E1"
    /\ lastOp.prev = result
    /\ Len(calls) = 2

----------------------------------------------------------------------------
(* C5: the snapshot of handleError is the result held with `error` set to
   the error received and `networkStatus` set to the error status, every
   other field (data, loading) carried over; the listeners receive the error
   inside that snapshot. *)
C5_ErrorSnapshotShape ==
    lastOp.op = "handleError" =>
        /\ lastOp.out.data = lastOp.prev.data
        /\ lastOp.out.loading = lastOp.prev.loading
        /\ lastOp.out.error = lastOp.arg
        /\ lastOp.out.networkStatus = NetworkStatus.error
        /\ \A i \in 1..Len(calls) :
              calls[i].result = lastOp.out /\ calls[i].result.error = lastOp.arg

\* an error arrived while a loading result with data was held
C5_Witness ==
    /\ lastOp.op = "handleError"
    /\ lastOp.arg = "E2"
    /\ lastOp.prev = ApolloQueryResult("D2", Undef, NetworkStatus.loading)
    /\ result.data = "D2"
    /\ result.loading
    /\ Len(calls) = 1

----------------------------------------------------------------------------
(* C9: the first call of a function returned by listen(cb) removes cb and
   nothing else from the listener set; every later call of that same
   function, whatever happened in between (a new listen(cb) included),
   changes nothing. *)
C9_Unregistration ==
    lastOp.op = "unregister" =>
        IF lastOp.again = "none"
        THEN Registered = WasRegistered \ {tokens[lastOp.arg].listener}
        ELSE listeners = lastOp.prev

----------------------------------------------------------------------------
(* C10: no callback is in the listener set twice, however often it was given
   to listen, and every delivery (a handleNext that is no duplicate, any
   handleError) invokes every callback registered at that moment exactly
   once, with the result delivered. *)
C10_FanOut ==
    /\ \A i, j \in 1..Len(listeners) : listeners[i] = listeners[j] => i = j
    /\ lastOp.op = "handleError" => FannedOut(lastOp.out)
    /\ (lastOp.op = "handleNext" /\ lastOp.out # lastOp.prev) =>
            FannedOut(lastOp.out)

\* L1 was given to listen twice, L1 is registered once, and a delivery
\* invoked it once
C10_Witness ==
    /\ Len(tokens) = 2
    /\ tokens[1] = [listener |-> "L1", called |-> FALSE]
    /\ tokens[2] = [listener |-> "L1", called |-> FALSE]
    /\ lastOp.op = "handleNext"
    /\ lastOp.out # lastOp.prev
    /\ Len(calls) = 1
    /\ calls[1].listener = "L1"

----------------------------------------------------------------------------
(* C6: for a query with @defer, once the stream has emitted its first chunk
   and the observer of wrapWithCustomPromise has been notified of it, the
   promise of the constructor is resolved with that first chunk, before any
   second chunk and whatever the stream emits afterwards; that observer has
   unsubscribed, and the only chunk it ever handles is the first. *)
C6_FirstChunkResolves ==
    deferred =>
        /\ (concast.emitted # <<>> /\ "aux" \notin inflight.todo) =>
              /\ initialPromise = [state |-> "resolved", value |-> concast.emitted[1]]
              /\ ~auxSubscribed
        /\ lastOp.op = "auxNext" =>
              (Len(concast.emitted) = 1 /\ lastOp.arg = concast.emitted[1])
        /\ fetches = 0 => promise = 0

\* chunk A, then chunk B, then completion: the promise still holds A
C6_Witness ==
    /\ deferred
    /\ concast.status = "completed"
    /\ Len(concast.emitted) = 2
    /\ concast.emitted[1].data = "D1"
    /\ concast.emitted[2].data = "D2"
    /\ initialPromise = [state |-> "resolved", value |-> concast.emitted[1]]
    /\ promise = 0

----------------------------------------------------------------------------
(* C7: the observer of wrapWithCustomPromise unsubscribing changes neither
   the subscription of the coordinator nor the other observers the event is
   still to reach; as long as the coordinator is subscribed every chunk of
   the stream, the first or a later one, reaches handleNext and, unless it
   is a duplicate, every registered listener. *)
C7_LaterChunksReachListeners ==
    [][ /\ (auxSubscribed /\ ~auxSubscribed') =>
              /\ subscribed' = subscribed
              /\ inflight'.todo = inflight.todo \ {"aux"}
        /\ (Len(concast'.emitted) > Len(concast.emitted) /\ subscribed) =>
              "main" \in inflight'.todo
        /\ (/\ "main" \in inflight.todo
            /\ "main" \notin inflight'.todo
            /\ inflight.kind = "next"
            /\ subscribed) =>
              /\ lastOp'.op = "handleNext"
              /\ lastOp'.arg = inflight.arg
              /\ lastOp'.out # result => (result' = lastOp'.out /\ FannedOut(lastOp.out)')
      ]_vars

\* the second chunk reached a listener after the auxiliary observer had left
C7_Witness ==
    /\ deferred
    /\ ~auxSubscribed
    /\ Len(concast.emitted) = 2
    /\ inflight.kind = "next"
    /\ inflight.todo = {}
    /\ inflight.arg = concast.emitted[2]
    /\ lastOp.op = "handleNext"
    /\ lastOp.arg = concast.emitted[2]
    /\ lastOp.prev = concast.emitted[1]
    /\ Len(calls) = 1
    /\ calls[1].result = concast.emitted[2]

----------------------------------------------------------------------------
(* C8: for a query with @defer, a stream that fails before any chunk rejects
   the promise of the constructor with the error of the stream; the
   rejection changes neither `result` nor the listener set, invokes no
   listener and leaves the subscription of the coordinator in place (it is
   released by dispose alone) and still to be notified. *)
C8_StreamRejection ==
    /\ [](/\ (/\ deferred
              /\ concast.status = "errored"
              /\ concast.emitted = <<>>
              /\ "aux" \notin inflight.todo) =>
                initialPromise = [state |-> "rejected", value |-> inflight.arg]
          /\ hookCalls = 0 => subscribed)
    /\ [][ lastOp'.op = "auxError" =>
              /\ result' = result
              /\ listeners' = listeners
              /\ subscribed' = subscribed
              /\ calls' = <<>>
              /\ inflight'.todo = inflight.todo \ {"aux"}
         ]_vars

\* the promise was rejected with E2, and a later result still reached a listener
C8_Witness ==
    /\ deferred
    /\ concast.emitted = <<>>
    /\ initialPromise = [state |-> "rejected", value |-> "E2"]
    /\ promise = 0
    /\ subscribed
    /\ lastOp.op = "handleNext"
    /\ Len(calls) = 1

----------------------------------------------------------------------------
(* C11: once dispose() has been called, a delivery driven into handleNext or
   handleError invokes no listener. *)
C11_DisposalHaltsDelivery ==
    (hookCalls >= 1 /\ lastOp.op \in {"handleNext", "handleError"}) =>
        calls = <<>>

----------------------------------------------------------------------------
(* C12: the onDispose hook does not run before the first dispose(); however
   often dispose() is called it has run exactly once, and the subscription
   of the coordinator has been released by then. *)
C12_HookExactlyOnce ==
    /\ subscribed => hookCalls = 0
    /\ lastOp.op = "dispose" => (hookCalls = 1 /\ ~subscribed)
    /\ hookCalls <= 1


(* C13: a refetch or fetchMore call reaches the engine exactly once, stores the
   promise the engine returned for that call in `promise` and returns it; the
   promise held after any sequence of such calls is that of the most recent
   call and differs from the one held before it. *)
C13_PromiseSwap ==
    lastOp.op \in {"refetch", "fetchMore"} =>
        /\ fetches = lastOp.arg + 1
        /\ promise = fetches
        /\ lastOp.out = promise
        /\ promise # lastOp.prev

C13_Witness ==
    /\ lastOp.op = "fetchMore"
    /\ fetches = 2
    /\ lastOp.prev = 1
    /\ promise = 2


(* C14: when the engine exposes no concast after subscribe, the constructor
   throws: no coordinator exists, so no method is ever called on it, no
   listener is registered or invoked and the onDispose hook never runs; the
   subscription registered before the test is never released and `promise`
   is never assigned. *)
C14_FatalConstruction ==
    ~Produced =>
        /\ lastOp.op \in {"threw", "handleNext", "handleError"}
        /\ listeners = <<>>
        /\ tokens = <<>>
        /\ calls = <<>>
        /\ hookCalls = 0
        /\ subscribed
        /\ promise = Undef

C14_Witness ==
    /\ ~Produced
    /\ subscribed
    /\ lastOp.op = "handleError"
    /\ lastOp.wrote
    /\ calls = <<>>


(* C15: for a query without @defer the promise of the constructor is
   concast.promise itself: no observer is added to the stream for it, it is
   pending for as long as the stream is open, however many results the stream
   has emitted, resolves with the last result when the stream completes and
   rejects when the stream fails. *)
C15_StreamPromiseAdopted ==
    ~deferred =>
        /\ ~auxSubscribed
        /\ "aux" \notin inflight.todo
        /\ lastOp.op \notin {"auxNext", "auxError"}
        /\ concast.status = "open" => initialPromise = Pending
        /\ concast.status = "completed" =>
              /\ initialPromise.state = "resolved"
              /\ initialPromise.value = Latest
        /\ concast.status = "errored" => initialPromise.state = "rejected"
        /\ fetches = 0 => promise = 0

\* two different results, then completion: resolved with the second
C15_Witness ==
    /\ ~deferred
    /\ promise = 0
    /\ concast.status = "completed"
    /\ Len(concast.emitted) = 2
    /\ concast.emitted[1] # concast.emitted[2]
    /\ initialPromise.state = "resolved"
    /\ initialPromise.value = concast.emitted[2]


(* C16, as stated: whenever handleNext or handleError assigns `result`, the
   value assigned differs from the value it replaces. *)
C16_NeverOverwrittenWithEqual ==
    lastOp.wrote => lastOp.out # lastOp.prev

(* C16, amended: handleNext assigns `result` only a value that differs from
   the one it replaces and leaves `result` alone otherwise; handleError
   assigns on every call, a value equal to the one it replaces included. *)
C16_OnlyNextSuppressesEqual ==
    /\ (lastOp.op = "handleNext" /\ lastOp.wrote) =>
          (lastOp.out # lastOp.prev /\ result = lastOp.out)
    /\ (lastOp.op = "handleNext" /\ ~lastOp.wrote) =>
          (lastOp.out = lastOp.prev /\ result = lastOp.prev)
    /\ lastOp.op = "handleError" => (lastOp.wrote /\ result = lastOp.out)

\* handleError storing, and delivering, a snapshot equal to the one held
C16_Witness ==
    /\ lastOp.op = "handleError"
    /\ lastOp.wrote
    /\ lastOp.out = lastOp.prev
    /\ calls # <<>>


(* C17: `result` is the last snapshot delivered.  Construction invokes no
   listener; every listener invocation carries the value `result` holds at
   that moment; a step that assigns `result` is a handleNext or handleError
   that fans that same value out to every registered listener; and `result`
   changes in no other step. *)
C17_ResultIsLastDelivered ==
    /\ [](/\ lastOp.op = "construct" => calls = <<>>
          /\ \A i \in 1..Len(calls) : calls[i].result = result
          /\ calls # <<>> =>
                (lastOp.op \in {"handleNext", "handleError"} /\ lastOp.wrote)
          /\ lastOp.wrote =>
                (result = lastOp.out /\ calls = deliver(result)))
    /\ [][ result' # result =>
              /\ lastOp'.op \in {"handleNext", "handleError"}
              /\ lastOp'.wrote
              /\ lastOp'.prev = result
              /\ lastOp'.out = result' ]_vars

C17_Witness ==
    /\ lastOp.op = "handleError"
    /\ lastOp.prev # result
    /\ Len(calls) = 2
    /\ calls[1].result = result
    /\ calls[2].result = result


(* C18: the listener set changes only in listen and in a call of a function
   listen returned; a callback leaves the set only in such a call, made for
   that very callback.  handleNext, handleError, refetch, fetchMore and
   dispose, called once or again, leave the set as it is. *)
C18_ShrinksOnlyByUnregistration ==
    /\ [][ listeners' # listeners =>
              lastOp'.op \in {"listen", "unregister"} ]_vars
    /\ [][ (\E cb \in Callbacks :
                Contains(listeners, cb) /\ ~Contains(listeners', cb)) =>
              /\ lastOp'.op = "unregister"
              /\ lastOp'.arg \in 1..Len(tokens)
              /\ listeners' = SetDelete(listeners, tokens[lastOp'.arg].listener) ]_vars
    /\ [][ lastOp'.op \in {"handleNext", "handleError", "refetch", "fetchMore",
                           "dispose"} =>
              listeners' = listeners ]_vars

\* disposed twice, both callbacks still registered
C18_Witness ==
    /\ lastOp.op = "dispose"
    /\ hookCalls = 2
    /\ Len(listeners) = 2


(* C19: a refetch or fetchMore call changes the `promise` field and nothing
   else of the coordinator: `result`, the listener set, the subscription and
   the hook count stay as they are and no listener is invoked.  `result`
   changes, and a listener is invoked, only in a handleNext or handleError
   step. *)
C19_FetchLeavesDeliveryPath ==
    /\ [](lastOp.op \in {"refetch", "fetchMore"} => calls = <<>>)
    /\ [][ lastOp'.op \in {"refetch", "fetchMore"} /\ fetches' # fetches =>
              /\ promise' # promise
              /\ result' = result
              /\ listeners' = listeners
              /\ tokens' = tokens
              /\ subscribed' = subscribed
              /\ hookCalls' = hookCalls ]_vars
    /\ [][ (result' # result \/ calls' # <<>>) =>
              lastOp'.op \in {"handleNext", "handleError"} ]_vars

\* a refetch with a listener registered and a result delivered before it
C19_Witness ==
    /\ lastOp.op = "refetch"
    /\ promise = 2
    /\ listeners # <<>>
    /\ result.data = "D1"
    /\ calls = <<>>


(* C20: the promise built for a query with @defer is settled by the auxiliary
   observer alone: resolved by its first next, rejected by its error.  A
   stream that completes without a chunk and without an error leaves it
   pending from then on, and once it is settled no later chunk, error or
   completion changes it. *)
C20_SettlesOnlyThroughObserver ==
    /\ [](deferred =>
            /\ (concast.status = "completed" /\ concast.emitted = <<>>) =>
                  initialPromise = Pending
            /\ initialPromise.state = "resolved" =>
                  (concast.emitted # <<>> /\
                   initialPromise.value = concast.emitted[1])
            /\ initialPromise.state = "rejected" =>
                  (concast.status = "errored" /\ concast.emitted = <<>>))
    /\ [][ (deferred /\ initialPromise' # initialPromise) =>
              /\ initialPromise.state = "pending"
              /\ lastOp'.op \in {"auxNext", "auxError"}
              /\ initialPromise'.state =
                    (IF lastOp'.op = "auxNext" THEN "resolved" ELSE "rejected") ]_vars
    /\ [][ (deferred /\ concast.status = "completed" /\ concast.emitted = <<>>) =>
              (concast' = concast /\ initialPromise' = Pending) ]_vars

\* completed without a chunk: still pending after a later refetch
C20_Witness ==
    /\ deferred
    /\ concast.status = "completed"
    /\ concast.emitted = <<>>
    /\ initialPromise = Pending
    /\ lastOp.op = "refetch"

====
